---- MODULE Spec2Model ----
(***************************************************************************)
(* Borsh codec of petgraph's Graph<N, E, Ty, Ix>                           *)
(* (src/src/graph_impl/borsh_serialization.rs).                            *)
(*                                                                         *)
(* A graph is two flat arrays, nodes and edges, with intrusive adjacency   *)
(* lists: node.next = [outgoing head, incoming head], edge.next = [next    *)
(* edge of the source's outgoing list, next edge of the target's incoming  *)
(* list].  Rust's next[0] / node[0] are next[1] / node[1] here (TLA+       *)
(* tuples are 1-based); node and edge indices keep their 0-based values,   *)
(* and At(s, i) reads position i of an array.                              *)
(*                                                                         *)
(* The byte stream is modelled as a sequence of tokens, one per primitive  *)
(* value the borsh codec writes: a u32 length prefix, an enum or option    *)
(* discriminant, an index of type Ix, a weight.                            *)
(***************************************************************************)
EXTENDS Integers, Sequences, FiniteSets, TLC

VARIABLES
    ix,       \* the index type Ix, given by its width in bits
    wire,     \* the records a hand-built stream was written from
    g,        \* the live graph of the engine (Graph<N, E, Ty, Ix>)
    data,     \* the byte stream handed to Graph::deserialize
    origin,   \* "none" | "encode" (data = encode(g)) | "hand" (hand-built stream)
    expect,   \* Ty::is_directed() of the type the stream is decoded as
    pc,       \* position inside Graph::deserialize / from_deserialized
    input,    \* the parsed BorshDeserGraph
    gr,       \* `let mut gr` of from_deserialized
    cursor,   \* edge_index of link_edges' loop
    linkerr,  \* the Err link_edges returned, if any
    result,   \* what Graph::deserialize returned to the caller
    steps     \* the pipeline steps this decode has run, in order

vars == <<ix, wire, g, data, origin, expect, pc, input, gr, cursor, linkerr, result, steps>>

----------------------------------------------------------------------------
(* Bounds of the model *)

MaxBits == 3       \* index widths of 1 .. MaxBits bits
MaxNodes == 3      \* nodes in a graph or in a hand-built stream
MaxEdges == 3      \* edges in a graph of the engine
MaxWireEdges == 2  \* edge records in a hand-built stream
MaxHoles == 1      \* entries of a hand-built node_holes sequence
MaxEndpoint == 3   \* largest endpoint value written into a hand-built stream

NodeWeights == {10, 11}
EdgeWeights == {20}
HoleIds == {0}

----------------------------------------------------------------------------
(* Index type *)

RECURSIVE Pow2(_)
Pow2(n) == IF n = 0 THEN 1 ELSE 2 * Pow2(n - 1)

\* <Ix as IndexType>::max().index(): all bits set
IxMax(bits) == Pow2(bits) - 1

\* EdgeIndex::end() / NodeIndex::end(): the sentinel
End(bits) == IxMax(bits)

IxBits == 1..MaxBits

At(s, i) == s[i + 1]

Min(a, b) == IF a < b THEN a ELSE b

----------------------------------------------------------------------------
(* Errors: io::Error::new(ErrorKind::Other, msg) *)

DirectionMismatch == "graph edge property mismatch"
CapacityExceeded == "invalid size"
HoleNotAllowed == "Graph can not have holes in the edge set, found None, expected edge"
DanglingEdge == "invalid node"
UnexpectedEof == "Unexpected length of input"
InvalidTag == "Unexpected variant index"

----------------------------------------------------------------------------
(* EdgeProperty *)

Undirected == 0
Directed == 1

\* EdgeProperty::is_directed
IsDirected(p) == p = Directed

\* impl From<PhantomData<Ty>> for EdgeProperty
EdgePropertyFrom(tyDirected) == IF tyDirected THEN Directed ELSE Undirected

\* a direction check that accepts every tag
PhantomAcceptAny(p, tyDirected) == [ok |-> TRUE, err |-> ""]

\* impl FromDeserialized for PhantomData<Ty>
PhantomFromDeserialized(p, tyDirected) ==
    IF IsDirected(p) # tyDirected
    THEN [ok |-> FALSE, err |-> DirectionMismatch]
    ELSE [ok |-> TRUE, err |-> ""]

----------------------------------------------------------------------------
(* Serialization: values to tokens *)

RECURSIVE Flatten(_)
Flatten(ss) == IF ss = <<>> THEN <<>> ELSE Head(ss) \o Flatten(Tail(ss))

\* borsh's Vec<T>: u32 length, then the elements
SerVec(elems) == <<Len(elems)>> \o Flatten(elems)

\* impl BorshSerialize for NodeIndex<Ix>
NodeIndexSerialize(i) == <<i>>

\* a Node serializer that also writes the adjacency heads
NodeSerializeWithLinks(n) == <<n.weight, n.next[1], n.next[2]>>

\* impl BorshSerialize for Node<N, Ix>: the weight only
NodeSerialize(n) == <<n.weight>>

\* an Edge serializer that writes (target, source, weight)
EdgeSerializeSwapped(e) == <<1, e.node[2], e.node[1], e.weight>>

\* impl BorshSerialize for Edge<E, Ix>: Some((source, target, weight))
EdgeSerialize(e) == <<1, e.node[1], e.node[2], e.weight>>

\* derived BorshSerialize for EdgeProperty: the variant index
EdgePropertySerialize(p) == <<p>>

\* derived BorshSerialize for BorshSerGraph: the fields in declaration order
BorshSerGraphSerialize(m) ==
    SerVec([k \in 1..Len(m.nodes) |-> NodeSerialize(m.nodes[k])])
    \o SerVec([k \in 1..Len(m.node_holes) |-> NodeIndexSerialize(m.node_holes[k])])
    \o EdgePropertySerialize(m.edge_property)
    \o SerVec([k \in 1..Len(m.edges) |-> EdgeSerialize(m.edges[k])])

\* Graph::into_serializable
IntoSerializable(gph) ==
    [nodes |-> gph.nodes,
     node_holes |-> <<>>,
     edge_property |-> EdgePropertyFrom(gph.ty),
     edges |-> gph.edges]

\* impl BorshSerialize for Graph
GraphSerialize(gph) == BorshSerGraphSerialize(IntoSerializable(gph))

----------------------------------------------------------------------------
(* Deserialization: tokens to values.  A reader returns                    *)
(* [ok, val, rest, err]: the value read and the tokens left, or the error. *)

ROk(v, rest) == [ok |-> TRUE, val |-> v, rest |-> rest, err |-> ""]
RErr(e) == [ok |-> FALSE, val |-> <<>>, rest |-> <<>>, err |-> e]

\* a primitive of the borsh codec: one integer
ReadInt(s) == IF s = <<>> THEN RErr(UnexpectedEof) ELSE ROk(Head(s), Tail(s))

\* impl BorshDeserialize for NodeIndex<Ix>
NodeIndexDeserialize(s) == ReadInt(s)

\* a Node reader that leaves the heads at index 0 instead of the sentinel
NodeDeserializeZeroHeads(s, bits) ==
    LET w == ReadInt(s) IN
    IF ~w.ok THEN w
    ELSE ROk([weight |-> w.val, next |-> <<0, 0>>], w.rest)

\* impl BorshDeserialize for Node<N, Ix>
NodeDeserialize(s, bits) ==
    LET w == ReadInt(s) IN
    IF ~w.ok THEN w
    ELSE ROk([weight |-> w.val, next |-> <<End(bits), End(bits)>>], w.rest)

\* an Edge reader that takes None for an edge without endpoints
EdgeDeserializeSkipHole(s, bits) ==
    LET tag == ReadInt(s) IN
    IF ~tag.ok THEN tag
    ELSE IF tag.val # 1
    THEN ROk([weight |-> 0,
              node |-> <<End(bits), End(bits)>>,
              next |-> <<End(bits), End(bits)>>],
             tag.rest)
    ELSE LET source == NodeIndexDeserialize(tag.rest) IN
         IF ~source.ok THEN source
         ELSE LET target == NodeIndexDeserialize(source.rest) IN
              IF ~target.ok THEN target
              ELSE LET weight == ReadInt(target.rest) IN
                   IF ~weight.ok THEN weight
                   ELSE ROk([weight |-> weight.val,
                             node |-> <<source.val, target.val>>,
                             next |-> <<End(bits), End(bits)>>],
                            weight.rest)

\* impl BorshDeserialize for Edge<E, Ix>
EdgeDeserialize(s, bits) ==
    LET tag == ReadInt(s) IN
    IF ~tag.ok THEN tag
    ELSE IF tag.val = 0
    THEN RErr(HoleNotAllowed)
    ELSE IF tag.val # 1
    THEN RErr(InvalidTag)
    ELSE LET source == NodeIndexDeserialize(tag.rest) IN
         IF ~source.ok THEN source
         ELSE LET target == NodeIndexDeserialize(source.rest) IN
              IF ~target.ok THEN target
              ELSE LET weight == ReadInt(target.rest) IN
                   IF ~weight.ok THEN weight
                   ELSE ROk([weight |-> weight.val,
                             node |-> <<source.val, target.val>>,
                             next |-> <<End(bits), End(bits)>>],
                            weight.rest)

\* derived BorshDeserialize for EdgeProperty
EdgePropertyDeserialize(s) ==
    LET tag == ReadInt(s) IN
    IF ~tag.ok THEN tag
    ELSE IF tag.val \notin {Undirected, Directed} THEN RErr(InvalidTag)
    ELSE tag

RECURSIVE ReadNodes(_, _, _, _)
ReadNodes(s, n, acc, bits) ==
    IF n = 0 THEN ROk(acc, s)
    ELSE LET r == NodeDeserialize(s, bits) IN
         IF ~r.ok THEN r ELSE ReadNodes(r.rest, n - 1, Append(acc, r.val), bits)

RECURSIVE ReadHoles(_, _, _)
ReadHoles(s, n, acc) ==
    IF n = 0 THEN ROk(acc, s)
    ELSE LET r == NodeIndexDeserialize(s) IN
         IF ~r.ok THEN r ELSE ReadHoles(r.rest, n - 1, Append(acc, r.val))

RECURSIVE ReadEdges(_, _, _, _)
ReadEdges(s, n, acc, bits) ==
    IF n = 0 THEN ROk(acc, s)
    ELSE LET r == EdgeDeserialize(s, bits) IN
         IF ~r.ok THEN r ELSE ReadEdges(r.rest, n - 1, Append(acc, r.val), bits)

\* derived BorshDeserialize for BorshDeserGraph: the fields in declaration order
BorshDeserGraphDeserialize(s, bits) ==
    LET nlen == ReadInt(s) IN
    IF ~nlen.ok THEN nlen
    ELSE LET nodes == ReadNodes(nlen.rest, nlen.val, <<>>, bits) IN
    IF ~nodes.ok THEN nodes
    ELSE LET hlen == ReadInt(nodes.rest) IN
    IF ~hlen.ok THEN hlen
    ELSE LET holes == ReadHoles(hlen.rest, hlen.val, <<>>) IN
    IF ~holes.ok THEN holes
    ELSE LET prop == EdgePropertyDeserialize(holes.rest) IN
    IF ~prop.ok THEN prop
    ELSE LET elen == ReadInt(prop.rest) IN
    IF ~elen.ok THEN elen
    ELSE LET edges == ReadEdges(elen.rest, elen.val, <<>>, bits) IN
    IF ~edges.ok THEN edges
    ELSE ROk([nodes |-> nodes.val,
              node_holes |-> holes.val,
              edge_property |-> prop.val,
              edges |-> edges.val],
             edges.rest)

----------------------------------------------------------------------------
(* Graph values *)

NoGraph == [nodes |-> <<>>, edges |-> <<>>, ty |-> FALSE]

NoInput == [nodes |-> <<>>, node_holes |-> <<>>, edge_property |-> Undirected, edges |-> <<>>]

NoResult == [status |-> "none", graph |-> NoGraph, err |-> ""]

Ok(gph) == [status |-> "ok", graph |-> gph, err |-> ""]

Err(e) == [status |-> "err", graph |-> NoGraph, err |-> e]

\* Graph::with_capacity(0, 0) / Graph::default()
NewGraph(tyDirected) == [nodes |-> <<>>, edges |-> <<>>, ty |-> tyDirected]

----------------------------------------------------------------------------
(* Graph::link_edges: the relinking pass *)

\* index_twice gives Pair::None: an endpoint is not a node
Dangling(gph, i) ==
    LET e == At(gph.edges, i) IN
    e.node[1] >= Len(gph.nodes) \/ e.node[2] >= Len(gph.nodes)

\* a link step that treats every edge as a self-loop of its source
LinkEdgeBothHeads(gph, i) ==
    LET e == At(gph.edges, i)
        a == e.node[1]
        an == At(gph.nodes, a)
    IN  [gph EXCEPT !.edges[i + 1].next = an.next,
                    !.nodes[a + 1].next = <<i, i>>]

\* one iteration of link_edges' loop, for the edge at index i
LinkEdge(gph, i) ==
    LET e == At(gph.edges, i)
        a == e.node[1]
        b == e.node[2]
        an == At(gph.nodes, a)
        bn == At(gph.nodes, b)
    IN  [gph EXCEPT !.edges[i + 1].next = <<an.next[1], bn.next[2]>>,
                    !.nodes[a + 1].next[1] = i,
                    !.nodes[b + 1].next[2] = i]

----------------------------------------------------------------------------
(* The graph engine: Graph::add_node, add_edge, remove_edge, remove_node *)

\* Vec::swap_remove(i): the last element takes position i
SwapRemove(s, i) ==
    LET n == Len(s) IN
    [k \in 1..(n - 1) |-> IF k = i + 1 THEN s[n] ELSE s[k]]

\* edges_walker_mut(edges, cur, d) up to the edge whose next[k] is e:
\* the index of that edge, or end if the walk finds none
RECURSIVE FindPred(_, _, _, _, _, _)
FindPred(edges, cur, k, e, fuel, bits) ==
    IF fuel = 0 \/ cur >= Len(edges) THEN End(bits)
    ELSE IF At(edges, cur).next[k] = e THEN cur
    ELSE FindPred(edges, At(edges, cur).next[k], k, e, fuel - 1, bits)

\* one direction k of Graph::change_edge_links
ChangeEdgeLinksDir(gph, edge_node, e, edge_next, k, bits) ==
    LET n == edge_node[k] IN
    IF n >= Len(gph.nodes) THEN gph
    ELSE IF At(gph.nodes, n).next[k] = e
    THEN [gph EXCEPT !.nodes[n + 1].next[k] = edge_next[k]]
    ELSE LET c == FindPred(gph.edges, At(gph.nodes, n).next[k], k, e, Len(gph.edges), bits) IN
         IF c >= Len(gph.edges) THEN gph
         ELSE [gph EXCEPT !.edges[c + 1].next[k] = edge_next[k]]

\* Graph::change_edge_links: outgoing, then incoming
ChangeEdgeLinks(gph, edge_node, e, edge_next, bits) ==
    ChangeEdgeLinksDir(ChangeEdgeLinksDir(gph, edge_node, e, edge_next, 1, bits),
                       edge_node, e, edge_next, 2, bits)

\* Graph::remove_edge_adjust_indices
RemoveEdgeAdjustIndices(gph, e, bits) ==
    LET g1 == [gph EXCEPT !.edges = SwapRemove(gph.edges, e)] IN
    IF e >= Len(g1.edges) THEN g1
    ELSE ChangeEdgeLinks(g1, At(g1.edges, e).node, Len(g1.edges), <<e, e>>, bits)

\* Graph::remove_edge
RemoveEdgeOp(gph, e, bits) ==
    IF e >= Len(gph.edges) THEN gph
    ELSE LET ed == At(gph.edges, e) IN
         RemoveEdgeAdjustIndices(ChangeEdgeLinks(gph, ed.node, e, ed.next, bits), e, bits)

\* remove_node's loop over direction k: remove the head edge until the list is empty
RECURSIVE RemoveIncident(_, _, _, _, _)
RemoveIncident(gph, a, k, fuel, bits) ==
    LET next == At(gph.nodes, a).next[k] IN
    IF fuel = 0 \/ next = End(bits) THEN gph
    ELSE RemoveIncident(RemoveEdgeOp(gph, next, bits), a, k, fuel - 1, bits)

\* remove_node's walk over the swapped node's list k: curedge.node[k] = new_index
RECURSIVE Retarget(_, _, _, _, _)
Retarget(edges, cur, k, new_index, fuel) ==
    IF fuel = 0 \/ cur >= Len(edges) THEN edges
    ELSE Retarget([edges EXCEPT ![cur + 1].node[k] = new_index],
                  At(edges, cur).next[k], k, new_index, fuel - 1)

\* Graph::remove_node
RemoveNodeOp(gph, a, bits) ==
    IF a >= Len(gph.nodes) THEN gph
    ELSE LET g1 == RemoveIncident(gph, a, 1, Len(gph.edges), bits)
             g2 == RemoveIncident(g1, a, 2, Len(g1.edges), bits)
             g3 == [g2 EXCEPT !.nodes = SwapRemove(g2.nodes, a)]
         IN  IF a >= Len(g3.nodes) THEN g3
             ELSE LET swap_edges == At(g3.nodes, a).next
                      e1 == Retarget(g3.edges, swap_edges[1], 1, a, Len(g3.edges))
                      e2 == Retarget(e1, swap_edges[2], 2, a, Len(g3.edges))
                  IN  [g3 EXCEPT !.edges = e2]

\* Graph::add_node
AddNodeOp(gph, weight, bits) ==
    [gph EXCEPT !.nodes = Append(gph.nodes, [weight |-> weight, next |-> <<End(bits), End(bits)>>])]

\* Graph::add_edge
AddEdgeOp(gph, a, b, weight, bits) ==
    LET edge_idx == Len(gph.edges)
        an == At(gph.nodes, a)
        bn == At(gph.nodes, b)
        edge == [weight |-> weight, node |-> <<a, b>>, next |-> <<an.next[1], bn.next[2]>>]
    IN  [gph EXCEPT !.edges = Append(gph.edges, edge),
                    !.nodes[a + 1].next[1] = edge_idx,
                    !.nodes[b + 1].next[2] = edge_idx]

----------------------------------------------------------------------------
(* Traversal *)

\* the edges a walk along next[k] from `cur` visits, in order; the walk ends
\* where edges.get(cur) is None
RECURSIVE Walk(_, _, _, _)
Walk(edges, cur, k, fuel) ==
    IF fuel = 0 \/ cur >= Len(edges) THEN <<>>
    ELSE <<cur>> \o Walk(edges, At(edges, cur).next[k], k, fuel - 1)

\* the index the walk stops at
RECURSIVE WalkEnd(_, _, _, _)
WalkEnd(edges, cur, k, fuel) ==
    IF fuel = 0 \/ cur >= Len(edges) THEN cur
    ELSE WalkEnd(edges, At(edges, cur).next[k], k, fuel - 1)

Range(s) == {s[k] : k \in 1..Len(s)}

\* Graph::neighbors_directed(a, dir) collected into a HashSet; dir is 1 for
\* Outgoing, 2 for Incoming.  An undirected graph walks both lists and skips
\* the self-loops of the incoming one.
NeighborsDirected(gph, a, dir) ==
    LET outs == Walk(gph.edges, At(gph.nodes, a).next[1], 1, Len(gph.edges) + 1)
        ins == Walk(gph.edges, At(gph.nodes, a).next[2], 2, Len(gph.edges) + 1)
        targets == {At(gph.edges, e).node[2] : e \in Range(outs)}
        sources == {At(gph.edges, e).node[1] : e \in Range(ins)}
    IN  IF gph.ty
        THEN IF dir = 1 THEN targets ELSE sources
        ELSE targets \cup {At(gph.edges, e).node[1] :
                              e \in {x \in Range(ins) : At(gph.edges, x).node[1] # a}}

\* Graph::neighbors(a)
Neighbors(gph, a) == NeighborsDirected(gph, a, 1)

\* assert_graph_eq of the serialization tests
GraphEq(g1, g2) ==
    /\ Len(g1.nodes) = Len(g2.nodes)
    /\ Len(g1.edges) = Len(g2.edges)
    /\ [k \in 1..Len(g1.nodes) |-> g1.nodes[k].weight]
         = [k \in 1..Len(g2.nodes) |-> g2.nodes[k].weight]
    /\ [k \in 1..Len(g1.edges) |-> g1.edges[k].weight]
         = [k \in 1..Len(g2.edges) |-> g2.edges[k].weight]
    /\ \A k \in 1..Len(g1.edges) : g1.edges[k].node = g2.edges[k].node
    /\ \A a \in 0..(Len(g1.nodes) - 1) :
          /\ Neighbors(g1, a) = Neighbors(g2, a)
          /\ NeighborsDirected(g1, a, 2) = NeighborsDirected(g2, a, 2)

----------------------------------------------------------------------------
(* Graph::deserialize, step by step *)

Step(name) == steps' = Append(steps, name)

Fail(e) ==
    /\ result' = Err(e)
    /\ pc' = "done"

\* BorshDeserGraph::deserialize(reader)?
Deserialize ==
    /\ pc = "deserialize"
    /\ Step("parse")
    /\ LET r == BorshDeserGraphDeserialize(data, ix) IN
       IF r.ok
       THEN /\ input' = r.val
            /\ pc' = "direction"
            /\ UNCHANGED result
       ELSE /\ Fail(r.err)
            /\ UNCHANGED input
    /\ UNCHANGED <<ix, wire, g, data, origin, expect, gr, cursor, linkerr>>

\* let ty = PhantomData::<Ty>::from_deserialized(input.edge_property)?
ValidateDirection ==
    /\ pc = "direction"
    /\ Step("direction")
    /\ LET r == PhantomFromDeserialized(input.edge_property, expect) IN
       IF r.ok
       THEN pc' = "cap_nodes" /\ UNCHANGED result
       ELSE Fail(r.err)
    /\ UNCHANGED <<ix, wire, g, data, origin, expect, input, gr, cursor, linkerr>>

\* a capacity check that admits a node count equal to the maximum
NodesOverCapacityStrict(inp, bits) == Len(inp.nodes) > IxMax(bits)

\* nodes.len() >= <Ix as IndexType>::max().index()
NodesOverCapacity(inp, bits) == Len(inp.nodes) >= IxMax(bits)

\* edges.len() >= <Ix as IndexType>::max().index()
EdgesOverCapacity(inp, bits) == Len(inp.edges) >= IxMax(bits)

ValidateNodeCapacity ==
    /\ pc = "cap_nodes"
    /\ Step("cap_nodes")
    /\ IF NodesOverCapacity(input, ix)
       THEN Fail(CapacityExceeded)
       ELSE pc' = "cap_edges" /\ UNCHANGED result
    /\ UNCHANGED <<ix, wire, g, data, origin, expect, input, gr, cursor, linkerr>>

ValidateEdgeCapacity ==
    /\ pc = "cap_edges"
    /\ Step("cap_edges")
    /\ IF EdgesOverCapacity(input, ix)
       THEN Fail(CapacityExceeded)
       ELSE pc' = "assemble" /\ UNCHANGED result
    /\ UNCHANGED <<ix, wire, g, data, origin, expect, input, gr, cursor, linkerr>>

\* let mut gr = Graph { nodes, edges, ty }
AssembleGraph(inp, tyDirected) == [nodes |-> inp.nodes, edges |-> inp.edges, ty |-> tyDirected]

Assemble ==
    /\ pc = "assemble"
    /\ Step("assemble")
    /\ gr' = AssembleGraph(input, expect)
    /\ cursor' = 0
    /\ pc' = "link"
    /\ UNCHANGED <<ix, wire, g, data, origin, expect, input, linkerr, result>>

\* gr.link_edges(): an iteration that links its edge
LinkStep ==
    /\ pc = "link"
    /\ cursor < Len(gr.edges)
    /\ ~Dangling(gr, cursor)
    /\ Step("link")
    /\ gr' = LinkEdge(gr, cursor)
    /\ cursor' = cursor + 1
    /\ UNCHANGED <<ix, wire, g, data, origin, expect, pc, input, linkerr, result>>

\* gr.link_edges(): Pair::None => return Err(..)
LinkFail ==
    /\ pc = "link"
    /\ cursor < Len(gr.edges)
    /\ Dangling(gr, cursor)
    /\ Step("link_fail")
    /\ linkerr' = DanglingEdge
    /\ pc' = "return"
    /\ UNCHANGED <<ix, wire, g, data, origin, expect, input, gr, cursor, result>>

\* gr.link_edges(): the loop ends, Ok(())
LinkDone ==
    /\ pc = "link"
    /\ cursor = Len(gr.edges)
    /\ Step("link_done")
    /\ pc' = "return"
    /\ UNCHANGED <<ix, wire, g, data, origin, expect, input, gr, cursor, linkerr, result>>

\* what from_deserialized returns after link_edges: .map_err(..) builds the
\* error and the statement drops it
ReturnValue(gph, lerr) == Ok(gph)

Return ==
    /\ pc = "return"
    /\ Step("return")
    /\ result' = ReturnValue(gr, linkerr)
    /\ pc' = "done"
    /\ UNCHANGED <<ix, wire, g, data, origin, expect, input, gr, cursor, linkerr>>

\* the steps of a decode whose stream names no dangling endpoint
DecodeLinked ==
    \/ Deserialize
    \/ ValidateDirection
    \/ ValidateNodeCapacity
    \/ ValidateEdgeCapacity
    \/ Assemble
    \/ LinkStep
    \/ LinkDone
    \/ Return

Decode ==
    \/ DecodeLinked
    \/ LinkFail

----------------------------------------------------------------------------
(* Hand-built streams *)

SeqsUpTo(S, n) == UNION {[1..k -> S] : k \in 0..n}

\* an edge record on the wire: the "absent" branch, or "present" with its tuple
WireEdges(bits) ==
    {<<0>>} \cup
    {<<1, s, t, w>> : s \in 0..Min(MaxEndpoint, IxMax(bits)),
                      t \in 0..Min(MaxEndpoint, IxMax(bits)),
                      w \in EdgeWeights}

\* the streams built by hand: any node weights, hole list, direction tag and
\* edge records
HandBuilt(bits) ==
    [nodes : SeqsUpTo(NodeWeights, MaxNodes),
     node_holes : SeqsUpTo(HoleIds, MaxHoles),
     edge_property : {Undirected, Directed},
     edges : SeqsUpTo(WireEdges(bits), MaxWireEdges)]

\* the bytes of a hand-built stream, field by field
WireBytes(w) ==
    SerVec([k \in 1..Len(w.nodes) |-> <<w.nodes[k]>>])
    \o SerVec([k \in 1..Len(w.node_holes) |-> <<w.node_holes[k]>>])
    \o <<w.edge_property>>
    \o SerVec(w.edges)

NoWire == [nodes |-> <<>>, node_holes |-> <<>>, edge_property |-> Undirected, edges |-> <<>>]

InitDecode ==
    /\ ix \in IxBits
    /\ expect \in BOOLEAN
    /\ g = NewGraph(expect)
    /\ wire \in HandBuilt(ix)
    /\ data = WireBytes(wire)
    /\ origin = "hand"
    /\ pc = "deserialize"
    /\ input = NoInput
    /\ gr = NoGraph
    /\ cursor = 0
    /\ linkerr = ""
    /\ result = NoResult
    /\ steps = <<>>

SpecDecode == InitDecode /\ [][Decode]_vars

----------------------------------------------------------------------------
(* The engine and the codec together *)

Idle == pc = "idle"

DecodeVars == <<data, origin, expect, pc, input, gr, cursor, linkerr, result, steps>>

\* g.add_node(w); the node array stays below the index type's maximum
AddNode ==
    /\ Idle
    /\ Len(g.nodes) < MaxNodes
    /\ Len(g.nodes) + 1 < IxMax(ix)
    /\ \E w \in NodeWeights : g' = AddNodeOp(g, w, ix)
    /\ UNCHANGED <<ix, wire, DecodeVars>>

\* g.add_edge(a, b, w) between two nodes of the graph
AddEdge ==
    /\ Idle
    /\ Len(g.edges) < MaxEdges
    /\ Len(g.edges) + 1 < IxMax(ix)
    /\ \E a \in 0..(Len(g.nodes) - 1), b \in 0..(Len(g.nodes) - 1), w \in EdgeWeights :
          g' = AddEdgeOp(g, a, b, w, ix)
    /\ UNCHANGED <<ix, wire, DecodeVars>>

\* g.remove_node(a)
RemoveNode ==
    /\ Idle
    /\ \E a \in 0..(Len(g.nodes) - 1) : g' = RemoveNodeOp(g, a, ix)
    /\ UNCHANGED <<ix, wire, DecodeVars>>

\* g.remove_edge(e)
RemoveEdge ==
    /\ Idle
    /\ \E e \in 0..(Len(g.edges) - 1) : g' = RemoveEdgeOp(g, e, ix)
    /\ UNCHANGED <<ix, wire, DecodeVars>>

\* encode!(g): g.try_to_vec(); the bytes are then decoded as a graph of either
\* direction
Encode ==
    /\ Idle
    /\ data' = GraphSerialize(g)
    /\ origin' = "encode"
    /\ expect' \in BOOLEAN
    /\ pc' = "deserialize"
    /\ UNCHANGED <<ix, wire, g, input, gr, cursor, linkerr, result, steps>>

\* the caller drops the decoded value
Finish ==
    /\ pc = "done"
    /\ origin = "encode"
    /\ pc' = "idle"
    /\ data' = <<>>
    /\ origin' = "none"
    /\ input' = NoInput
    /\ gr' = NoGraph
    /\ cursor' = 0
    /\ linkerr' = ""
    /\ result' = NoResult
    /\ steps' = <<>>
    /\ expect' = g.ty
    /\ UNCHANGED <<ix, wire, g>>

Init ==
    /\ ix \in IxBits
    /\ expect \in BOOLEAN
    /\ g = NewGraph(expect)
    /\ wire = NoWire
    /\ data = <<>>
    /\ origin = "none"
    /\ pc = "idle"
    /\ input = NoInput
    /\ gr = NoGraph
    /\ cursor = 0
    /\ linkerr = ""
    /\ result = NoResult
    /\ steps = <<>>

\* The bytes of an engine graph name no dangling endpoint (C1_RoundTrip checks
\* it at every relinking step), so link_edges' Err return is no step here.
Next ==
    \/ AddNode
    \/ AddEdge
    \/ RemoveNode
    \/ RemoveEdge
    \/ Encode
    \/ DecodeLinked
    \/ Finish

Spec == Init /\ [][Next]_vars


----------------------------------------------------------------------------
(* Properties of decoding a hand-built stream (SpecDecode).  They describe  *)
(* the stream by the records it was written from (wire), not by what the    *)
(* decoder parsed.                                                          *)

Done == pc = "done"

Absent(e) == e = <<0>>

AllPresent == \A k \in 1..Len(wire.edges) : ~Absent(wire.edges[k])

TagMatches == (wire.edge_property = Directed) = expect

WireNodesOver == Len(wire.nodes) >= IxMax(ix)

WireEdgesOver == Len(wire.edges) >= IxMax(ix)

\* some present edge record names an endpoint that is no node of the stream
WireDangling ==
    \E k \in 1..Len(wire.edges) :
        /\ ~Absent(wire.edges[k])
        /\ \/ wire.edges[k][2] >= Len(wire.nodes)
           \/ wire.edges[k][3] >= Len(wire.nodes)

Count(seq, x) == Cardinality({k \in 1..Len(seq) : seq[k] = x})

NoDup(seq) == Cardinality(Range(seq)) = Len(seq)

\* C2: a stream that passes the direction and capacity checks and holds an
\* edge with an endpoint >= len(nodes) is answered with the DanglingEdge error
\* and never with a graph.
C2_DanglingRejected ==
    (Done /\ origin = "hand" /\ AllPresent /\ TagMatches
          /\ ~WireNodesOver /\ ~WireEdgesOver /\ WireDangling)
        => result = Err(DanglingEdge)

\* C4 as stated: with a matching direction tag, decode fails with
\* CapacityExceeded whenever len(nodes) >= MAX or len(edges) >= MAX.
C4_CapacityAnyStream ==
    (Done /\ origin = "hand" /\ TagMatches /\ (WireNodesOver \/ WireEdgesOver))
        => result = Err(CapacityExceeded)

\* C4, amended: for a stream whose edge records are all present and whose
\* direction tag matches, decode fails with CapacityExceeded when
\* len(nodes) >= MAX or len(edges) >= MAX, does not fail with CapacityExceeded
\* when both are <= MAX - 1, and succeeds there when no endpoint dangles.
C4_CapacityBoundary ==
    (Done /\ origin = "hand" /\ AllPresent /\ TagMatches) =>
        /\ (WireNodesOver \/ WireEdgesOver) => result = Err(CapacityExceeded)
        /\ (Len(wire.nodes) <= IxMax(ix) - 1 /\ Len(wire.edges) <= IxMax(ix) - 1)
              => result.err # CapacityExceeded
        /\ (Len(wire.nodes) = IxMax(ix) - 1 /\ ~WireEdgesOver /\ ~WireDangling)
              => result.status = "ok"

\* a node count of MAX is refused, with every edge record present
C4_Witness ==
    /\ Done
    /\ AllPresent
    /\ TagMatches
    /\ Len(wire.nodes) = IxMax(ix)
    /\ Len(wire.edges) = 2
    /\ result = Err(CapacityExceeded)

\* C5: a stream with an absent edge record at any position fails with
\* HoleNotAllowed and yields no graph, whatever its nodes, other edges and
\* direction tag; decoding one absent record fails likewise, and a present
\* record decodes to an edge with the record's source, target and weight.
C5_HoleRejected ==
    /\ (Done /\ origin = "hand" /\ ~AllPresent) => result = Err(HoleNotAllowed)
    /\ \A k \in 1..Len(wire.edges) :
          LET r == EdgeDeserialize(wire.edges[k], ix) IN
          IF Absent(wire.edges[k])
          THEN ~r.ok /\ r.err = HoleNotAllowed
          ELSE /\ r.ok
               /\ r.val.node = <<wire.edges[k][2], wire.edges[k][3]>>
               /\ r.val.weight = wire.edges[k][4]
    /\ (origin = "hand" /\ pc \notin {"deserialize", "done"}) =>
          /\ Len(input.edges) = Len(wire.edges)
          /\ \A k \in 1..Len(wire.edges) :
                /\ input.edges[k].node = <<wire.edges[k][2], wire.edges[k][3]>>
                /\ input.edges[k].weight = wire.edges[k][4]

\* the absent record comes second, after a present one, under a wrong tag and
\* a full node array
C5_Witness ==
    /\ Done
    /\ Len(wire.edges) = 2
    /\ ~Absent(wire.edges[1])
    /\ Absent(wire.edges[2])
    /\ ~TagMatches
    /\ WireNodesOver
    /\ result = Err(HoleNotAllowed)

\* C6: a stream whose node_holes sequence is not empty is not decoded into a
\* graph.
C6_HolesValidated ==
    (Done /\ origin = "hand" /\ Len(wire.node_holes) > 0) => result.status # "ok"

\* the edges whose endpoint k is node n
EdgesAt(gph, n, k) == {i \in 0..(Len(gph.edges) - 1) : At(gph.edges, i).node[k] = n}

\* C8: after the relinking pass over a stream without dangling endpoints, the
\* walk from each node's outgoing head visits exactly the edges sourced at
\* that node, each once, and ends at the sentinel; the same for the incoming
\* head and the edges targeting the node; a node without such edges keeps the
\* sentinel as its head.
C8_RelinkPost ==
    (origin = "hand" /\ pc \in {"return", "done"} /\ "assemble" \in Range(steps)
                     /\ ~WireDangling) =>
        /\ Len(gr.nodes) = Len(wire.nodes)
        /\ Len(gr.edges) = Len(wire.edges)
        /\ \A n \in 0..(Len(gr.nodes) - 1) : \A k \in {1, 2} :
              LET head == At(gr.nodes, n).next[k]
                  chain == Walk(gr.edges, head, k, Len(gr.edges) + 1)
              IN  /\ NoDup(chain)
                  /\ Range(chain) = EdgesAt(gr, n, k)
                  /\ WalkEnd(gr.edges, head, k, Len(gr.edges) + 1) = End(ix)
                  /\ (EdgesAt(gr, n, k) = {} => head = End(ix))

\* two parallel self-loops on one node, next to a node without edges
C8_Witness ==
    /\ Done
    /\ result.status = "ok"
    /\ Len(gr.nodes) = 2
    /\ Len(gr.edges) = 2
    /\ At(gr.edges, 0).node = <<0, 0>>
    /\ At(gr.edges, 1).node = <<0, 0>>
    /\ Walk(gr.edges, At(gr.nodes, 0).next[1], 1, 3) = <<1, 0>>

\* the outcome the pipeline order prescribes: the error of the first step
\* that fails, in the order parse, direction, capacity, relinking
FirstFailure ==
    IF ~AllPresent THEN HoleNotAllowed
    ELSE IF ~TagMatches THEN DirectionMismatch
    ELSE IF WireNodesOver \/ WireEdgesOver THEN CapacityExceeded
    ELSE IF WireDangling THEN DanglingEdge
    ELSE ""

PipelineOrder == <<"parse", "direction", "cap_nodes", "cap_edges", "assemble">>

\* the steps run so far follow the fixed order, relinking last
StepsInOrder ==
    /\ \A k \in 1..Min(Len(steps), Len(PipelineOrder)) : steps[k] = PipelineOrder[k]
    /\ \A k \in (Len(PipelineOrder) + 1)..Len(steps) :
          steps[k] \in {"link", "link_fail", "link_done", "return"}

\* C9: decode runs parse, direction check, capacity check on nodes then
\* edges, array assembly and relinking in this order and stops at the first
\* failing step with that step's error; nothing is assembled or relinked once
\* an earlier step has failed.
C9_PipelineOrder ==
    (origin = "hand") =>
        /\ StepsInOrder
        /\ Done => /\ result.err = FirstFailure
                   /\ (result.status = "ok") = (FirstFailure = "")
        /\ (Done /\ FirstFailure \in {HoleNotAllowed, DirectionMismatch, CapacityExceeded})
              => (gr = NoGraph /\ "assemble" \notin Range(steps))

\* the part of C9 before relinking: parse, direction and capacity failures
\* are reported in this order and leave nothing assembled
PipelineOrderBeforeRelink ==
    (origin = "hand") =>
        /\ StepsInOrder
        /\ (Done /\ FirstFailure \in {HoleNotAllowed, DirectionMismatch, CapacityExceeded})
              => /\ result = Err(FirstFailure)
                 /\ gr = NoGraph
                 /\ "assemble" \notin Range(steps)

\* what one relinking step may change, for the edge i = cursor with
\* endpoints (s, t)
LinkFrame ==
    LET i == cursor
        s == At(gr.edges, i).node[1]
        t == At(gr.edges, i).node[2]
    IN  /\ i = Count(steps, "link")
        /\ cursor' = i + 1
        /\ gr'.ty = gr.ty
        /\ Len(gr'.nodes) = Len(gr.nodes)
        /\ Len(gr'.edges) = Len(gr.edges)
        /\ \A n \in 0..(Len(gr.nodes) - 1) :
              /\ At(gr'.nodes, n).weight = At(gr.nodes, n).weight
              /\ n # s => At(gr'.nodes, n).next[1] = At(gr.nodes, n).next[1]
              /\ n # t => At(gr'.nodes, n).next[2] = At(gr.nodes, n).next[2]
        /\ At(gr'.nodes, s).next[1] = i
        /\ At(gr'.nodes, t).next[2] = i
        /\ \A e \in 0..(Len(gr.edges) - 1) :
              /\ At(gr'.edges, e).weight = At(gr.edges, e).weight
              /\ At(gr'.edges, e).node = At(gr.edges, e).node
              /\ e # i => At(gr'.edges, e).next = At(gr.edges, e).next
        /\ At(gr'.edges, i).next = <<At(gr.nodes, s).next[1], At(gr.nodes, t).next[2]>>

\* C10: the relinking step for edge i with endpoints (s, t) changes only s's
\* outgoing head, t's incoming head and edge i's two next pointers, which take
\* the previous values of those heads; all other heads and next pointers, all
\* weights and endpoints stay; the steps take the edges in array order, and
\* the pass ends after the last edge.
C10_LinkStepFrame ==
    [][/\ (pc = "link" /\ steps' = Append(steps, "link")) => LinkFrame
       /\ (pc = "link" /\ steps' = Append(steps, "link_done"))
             => (cursor = Len(gr.edges) /\ cursor = Count(steps, "link") /\ gr' = gr)]_vars

\* the second edge 1 -> 0 has been spliced in front of the first edge 0 -> 0
\* in node 0's incoming list, and heads node 1's outgoing list
C10_Witness ==
    /\ pc = "link"
    /\ cursor = 2
    /\ At(gr.edges, 0).node = <<0, 0>>
    /\ At(gr.edges, 1).node = <<1, 0>>
    /\ At(gr.edges, 1).next = <<End(ix), 0>>
    /\ At(gr.nodes, 0).next = <<0, 1>>
    /\ At(gr.nodes, 1).next = <<1, End(ix)>>


----------------------------------------------------------------------------
(* Properties of encoding the engine's graphs and decoding the bytes (Spec) *)

\* the adjacency list of node a in direction k, as the engine walks it
AdjList(gph, a, k) == Walk(gph.edges, At(gph.nodes, a).next[k], k, Len(gph.edges) + 1)

\* C1: for every graph the engine's add-node, add-edge, remove-node and
\* remove-edge operations reach, directed or undirected and of any index
\* width, decoding the encoded graph as its own type succeeds and gives the
\* same node count, edge count, node weights in array order, edge weights in
\* array order, endpoints at every edge index and, for every node, the same
\* sets of outgoing and of incoming neighbours.
C1_RoundTrip ==
    /\ (Done /\ origin = "encode" /\ expect = g.ty) =>
          /\ result.status = "ok"
          /\ result.graph.ty = g.ty
          /\ GraphEq(g, result.graph)
    /\ (origin = "encode" /\ pc = "link" /\ cursor < Len(gr.edges)) => ~Dangling(gr, cursor)
    /\ (origin = "encode" /\ expect = g.ty) => pc \in {"deserialize", "direction", "cap_nodes",
                                                       "cap_edges", "assemble", "link",
                                                       "return", "done"}
    /\ (origin = "encode" /\ expect = g.ty /\ Done) => steps[Len(steps)] = "return"

\* a graph of three nodes whose adjacency lists, after removals, are not in
\* the order relinking gives them
C1_Witness ==
    /\ Done
    /\ origin = "encode"
    /\ expect = g.ty
    /\ result.status = "ok"
    /\ Len(g.nodes) = 3
    /\ Len(g.edges) >= 2
    /\ \E a \in 0..(Len(g.nodes) - 1) : AdjList(g, a, 1) # AdjList(result.graph, a, 1)

\* C3: decode succeeds only if the direction tag on the wire equals the
\* direction of the expected graph type; the bytes of a directed graph decoded
\* as undirected, and of an undirected graph decoded as directed, fail with
\* DirectionMismatch, for every graph including the empty one.
C3_DirectionEnforced ==
    (Done /\ origin = "encode") =>
        /\ result.status = "ok" => (input.edge_property = Directed) = expect
        /\ result.status = "ok" => g.ty = expect
        /\ g.ty # expect => result = Err(DirectionMismatch)

\* the bytes of a non-empty directed graph, decoded as undirected
C3_Witness ==
    /\ Done
    /\ origin = "encode"
    /\ g.ty
    /\ ~expect
    /\ Len(g.edges) > 0
    /\ result = Err(DirectionMismatch)

\* the bytes of a graph, written from its arrays alone
ExpectedBytes(gph) ==
    <<Len(gph.nodes)>>
    \o [k \in 1..Len(gph.nodes) |-> gph.nodes[k].weight]
    \o <<0>>
    \o <<IF gph.ty THEN Directed ELSE Undirected>>
    \o <<Len(gph.edges)>>
    \o Flatten([k \in 1..Len(gph.edges) |->
                  <<1, gph.edges[k].node[1], gph.edges[k].node[2], gph.edges[k].weight>>])

\* C7: encode produces a mirror whose nodes are the graph's node weights in
\* array order, whose node_holes is empty, whose direction tag is Directed iff
\* the graph is directed, and whose edges are the array's edges in array
\* order, each present with its (source, target, weight); adjacency pointers
\* do not reach the output: graphs differing only in them encode to the same
\* bytes.
C7_EncodeShape ==
    /\ LET m == IntoSerializable(g) IN
          /\ [k \in 1..Len(m.nodes) |-> m.nodes[k].weight]
               = [k \in 1..Len(g.nodes) |-> g.nodes[k].weight]
          /\ m.node_holes = <<>>
          /\ (m.edge_property = Directed) = g.ty
          /\ Len(m.edges) = Len(g.edges)
          /\ \A k \in 1..Len(g.edges) :
                /\ m.edges[k].node = g.edges[k].node
                /\ m.edges[k].weight = g.edges[k].weight
    /\ GraphSerialize(g) = ExpectedBytes(g)
    /\ origin = "encode" => data = ExpectedBytes(g)
    /\ (Done /\ origin = "encode" /\ result.status = "ok")
          => GraphSerialize(result.graph) = data

\* the decoded graph differs from the engine's in its adjacency pointers only,
\* and encodes to the same bytes
C7_Witness ==
    /\ Done
    /\ origin = "encode"
    /\ result.status = "ok"
    /\ Len(g.edges) = 3
    /\ result.graph # g
    /\ GraphSerialize(result.graph) = GraphSerialize(g)

====
